---- MODULE Spec2Model ----
(***************************************************************************)
(* Remediation orchestration of EKS Chaos Guardian.                        *)
(*                                                                         *)
(*   src/lambda/bedrock-agent/main.py    plan builder, autonomy gate,      *)
(*                                       execute_plan                      *)
(*   src/lambda/slack/slack_bot.py       approval requests and their       *)
(*                                       resolution                        *)
(*   src/lambda/runbook/runbook_manager.py  runbook store, execute_runbook *)
(***************************************************************************)
EXTENDS Integers, Sequences, FiniteSets, TLC

\* ------------------------------------------------------------------ bounds
MaxSteps == 2          \* remediation steps in one analysis result
MaxRunbookSteps == 2   \* steps in one stored runbook
MaxRunbooks == 1       \* runbooks stored in one behaviour
MaxTime == 1           \* int(time.time()) takes the values 0..MaxTime
MaxRequests == 2       \* /chaos commands that create an approval request
MaxHandlers == 2       \* resolution handlers (button click or /approve)
MaxChecks == 2         \* checks in the list a verify_recovery event carries
MaxCatalog == 2        \* index items a scan of the runbook index returns
MaxUpdates == 2        \* update_runbook calls in one behaviour
MaxPlans == 2          \* calls of create_remediation_plan in one behaviour

None == "none"

\* ------------------------------------------------------------------ state
VARIABLES
    \* bedrock-agent (main.py)
    agent_pc,          \* position of the agent: idle, planned, matched, loop, done
    plan,              \* the plan returned by create_remediation_plan
    next_step,         \* index of the step the for loop of execute_plan is at
    execution_result,  \* the execution_result dict of execute_plan
    executor_calls,    \* step numbers handed to the k8s-operations Lambda
    notifications,     \* step numbers sent to the slack-notify Lambda
    analysis,          \* what the last analyze_failure call worked from
    plan_ids,          \* the plan_id of every plan built so far
    \* slack bot (slack_bot.py)
    now,               \* int(time.time())
    approvals,         \* DynamoDB table eks-chaos-guardian-approvals
    requests,          \* responses of the /chaos commands that ask approval
    handlers,          \* resolution handlers, one record per invocation
    invoked,           \* per approval id, the runs of execute_approved_action
    \* runbook manager (runbook_manager.py)
    s3_runbooks,       \* bodies of the S3 objects runbooks/<runbook_id>.json
    runbook_index,     \* DynamoDB table eks-chaos-guardian-runbook-index
    store_returns,     \* what each store_runbook call returned
    rb_pc,             \* position of execute_runbook: idle, loop, finish, done
    rb_runbook,        \* the runbook execute_runbook retrieved
    rb_next,           \* index of the runbook step the for loop is at
    rb_attempts,       \* indices handed to execute_runbook_step, in order
    rb_execution,      \* the execution_result dict of execute_runbook
    updates,           \* the update_runbook calls made so far
    updating,          \* the update_runbook calls between read and write
    retrievals,        \* per runbook, the retrievals whose access_count write
                       \* DynamoDB accepted
    executions,        \* per runbook, the runs store_execution_result recorded
    \* bedrock-agent, verify_recovery (main.py)
    verify_pc,         \* position of verify_recovery: idle, loop, done
    checks,            \* event['checks']
    next_check,        \* index of the check the for loop is at
    verification_result, \* the verification_result dict
    \* runbook manager, get_similar_runbooks (runbook_manager.py)
    similar_pc,        \* position of get_similar_runbooks: idle, done
    search_data,       \* the runbook_data of the get_similar event
    all_runbooks,      \* response.get('Items', []) of the scan
    similar_runbooks   \* the list get_similar_runbooks returned

agentVars == <<agent_pc, plan, next_step, execution_result, executor_calls,
               notifications, analysis, plan_ids>>
slackVars == <<now, approvals, requests, handlers, invoked>>
runbookVars == <<s3_runbooks, runbook_index, store_returns, rb_pc, rb_runbook,
                 rb_next, rb_attempts, rb_execution, updates, updating,
                 retrievals, executions>>
verifyVars == <<verify_pc, checks, next_check, verification_result>>
similarVars == <<similar_pc, search_data, all_runbooks, similar_runbooks>>
vars == <<agentVars, slackVars, runbookVars, verifyVars, similarVars>>

\* The agent, the slack bot and the runbook manager are separate Lambda
\* functions whose steps change disjoint parts of the state, so the steps of
\* one commute with those of the others: a behaviour follows one of the
\* three from the initial state instead of interleaving them.
\* Lambda delivers an asynchronous event at least once. The first call of a
\* handler in a behaviour takes any input; a later call of the same handler
\* is the same event delivered again.
Delivered(first, inputs, last) == IF first THEN inputs ELSE {last}

AgentIdle == agent_pc = "idle"
SlackIdle == requests = <<>> /\ handlers = <<>>
RunbookManagerIdle ==
    rb_pc = "idle" /\ store_returns = <<>> /\ updates = 0
VerifierIdle == verify_pc = "idle"
SimilarIdle == similar_pc = "idle"
AgentRuns == SlackIdle /\ RunbookManagerIdle /\ VerifierIdle /\ SimilarIdle
SlackRuns == AgentIdle /\ RunbookManagerIdle /\ VerifierIdle /\ SimilarIdle
RunbookManagerRuns == AgentIdle /\ SlackIdle /\ VerifierIdle /\ SimilarIdle
VerifierRuns == AgentIdle /\ SlackIdle /\ RunbookManagerIdle /\ SimilarIdle
SimilarRuns == AgentIdle /\ SlackIdle /\ RunbookManagerIdle /\ VerifierIdle

\* ------------------------------------------------- bedrock-agent: the gate
RiskLevels == {"low", "medium", "high"}
\* "manual" stands for any mode string other than the three known ones
AutonomyModes == {"dry_run", "auto", "approve", "manual"}
\* main.py:246
low_risk_actions == {"rollout_restart", "coredns_restart", "cache_refresh"}
\* main.py:300-309, the actions execute_step dispatches
known_actions == {"patch_deployment", "rollout_restart", "scale_deployment",
                  "cordon_node", "drain_node"}
\* the actions an analysis result proposes in this model: dispatched and not
\* allow-listed, dispatched and allow-listed, allow-listed and not dispatched
StepActions == {"patch_deployment", "rollout_restart", "cache_refresh"}

can_auto_execute_noallow(action, risk_level, autonomy_mode) ==
    IF autonomy_mode = "dry_run" THEN FALSE
    ELSE IF autonomy_mode = "auto" THEN risk_level = "low"
    ELSE IF autonomy_mode = "approve" THEN risk_level = "low"
    ELSE FALSE

can_auto_execute(action, risk_level, autonomy_mode) ==
    IF autonomy_mode = "dry_run" THEN FALSE
    ELSE IF autonomy_mode = "auto"
         THEN action \in low_risk_actions /\ risk_level = "low"
    ELSE IF autonomy_mode = "approve" THEN risk_level = "low"
    ELSE FALSE

\* ------------------------------------------ bedrock-agent: the plan builder
\* the gate only asks whether a step's risk level is 'low'; "high" stands
\* for the levels that are not
StepRiskLevels == {"low", "high"}
AnalysisSteps ==
    UNION {[1..n -> [action : StepActions, risk_level : StepRiskLevels]]
           : n \in 0..MaxSteps}
AnalysisResults == [risk_level : RiskLevels, remediation_steps : AnalysisSteps]

plan_step_unannotated(i, step, autonomy_mode) ==
    [step_number |-> i,
     action |-> step.action,
     risk_level |-> step.risk_level,
     can_auto_execute |-> FALSE]

plan_step(i, step, autonomy_mode) ==
    [step_number |-> i,
     action |-> step.action,
     risk_level |-> step.risk_level,
     can_auto_execute |->
         can_auto_execute(step.action, step.risk_level, autonomy_mode)]

\* utcnow is the second the call is made in
create_remediation_plan(analysis_result, autonomy_mode, utcnow) ==
    [plan_id |-> utcnow,
     risk_level |-> analysis_result.risk_level,
     autonomy_mode |-> autonomy_mode,
     steps |-> [i \in 1..Len(analysis_result.remediation_steps) |->
                   plan_step(i, analysis_result.remediation_steps[i],
                             autonomy_mode)],
     requires_approval |-> analysis_result.risk_level \in {"medium", "high"}]

NoPlan == [plan_id |-> 0, risk_level |-> None, autonomy_mode |-> None,
           steps |-> <<>>, requires_approval |-> FALSE]
NoExecution == [autonomy_mode |-> None, steps_executed |-> <<>>,
                status |-> None]

\* check_existing_runbook: when the query of the runbook table succeeds and
\* a log line of the signals contains 'OOMKilled' the sample runbook is
\* returned; otherwise, and when the query raises, None
check_existing_runbook(oom_killed, query_ok) == query_ok /\ oom_killed

\* fallback_analysis: the pattern matching used when the model call fails
fallback_analysis(oom_killed) ==
    IF oom_killed
    THEN [risk_level |-> "medium",
          remediation_steps |->
             <<[action |-> "patch_deployment", risk_level |-> "medium"]>>]
    ELSE [risk_level |-> "high", remediation_steps |-> <<>>]

\* analyze_with_claude: what the call can return for the signals, the JSON
\* the model answered or, when invoking the model or parsing its answer
\* raises, fallback_analysis
analyze_with_claude(oom_killed) ==
    AnalysisResults \cup {fallback_analysis(oom_killed)}

NoAnalysis == [oom_killed |-> FALSE, analysis_type |-> None,
               analysis_result |-> [risk_level |-> None,
                                    remediation_steps |-> <<>>],
               autonomy_mode |-> None]

\* the first analyze call of a behaviour takes any input, a later one is the
\* same event delivered again and answered as before
Analyzed(inputs, last) == Delivered(agent_pc = "idle", inputs, last)

\* analyze_failure: a matching runbook ends the analysis with runbook_match
\* and no plan; otherwise the analysis of the signals is turned into a plan
analyze_failure ==
    /\ AgentRuns
    /\ agent_pc \in {"idle", "planned"}
    /\ Len(plan_ids) < MaxPlans
    /\ \E oom_killed \in Analyzed(BOOLEAN, analysis.oom_killed),
          query_ok \in Analyzed(BOOLEAN, FALSE),
          autonomy_mode \in Analyzed(AutonomyModes, analysis.autonomy_mode),
          time \in now..MaxTime :
          /\ now' = time
          /\ IF check_existing_runbook(oom_killed, query_ok)
             THEN /\ analysis' = [oom_killed |-> oom_killed,
                                  analysis_type |-> "runbook_match",
                                  analysis_result |-> NoAnalysis.analysis_result,
                                  autonomy_mode |-> autonomy_mode]
                  /\ agent_pc' = "matched"
                  /\ plan' = NoPlan
                  /\ UNCHANGED plan_ids
             ELSE \E analysis_result \in
                        Analyzed(analyze_with_claude(oom_killed),
                                 analysis.analysis_result) :
                     /\ analysis' = [oom_killed |-> oom_killed,
                                     analysis_type |-> "new_analysis",
                                     analysis_result |-> analysis_result,
                                     autonomy_mode |-> autonomy_mode]
                     /\ plan' = create_remediation_plan(analysis_result,
                                                        autonomy_mode, time)
                     /\ plan_ids' = Append(plan_ids, plan'.plan_id)
                     /\ agent_pc' = "planned"
    /\ UNCHANGED <<next_step, execution_result, executor_calls, notifications>>
    /\ UNCHANGED <<approvals, requests, handlers, invoked>>
    /\ UNCHANGED <<runbookVars, verifyVars, similarVars>>

\* --------------------------------------------- bedrock-agent: execute_plan
\* what the k8s-operations Lambda can answer to one invocation
ExecutorOutcomes == {"200", "500", "raised"}

execute_step_dispatches_any(step, outcome) ==
    [step_number |-> step.step_number, action |-> step.action,
     status |-> IF outcome = "200" THEN "success" ELSE "failed"]

\* execute_step: the result dict; an action that is not one of the five
\* dispatched ones is answered with status skipped, without an invoke
execute_step(step, outcome) ==
    IF step.action \in known_actions
    THEN [step_number |-> step.step_number, action |-> step.action,
          status |-> IF outcome = "200" THEN "success" ELSE "failed"]
    ELSE [step_number |-> step.step_number, action |-> step.action,
          status |-> "skipped"]

queue_for_approval(step) ==
    [step_number |-> step.step_number, action |-> step.action,
     status |-> "queued_for_approval"]

\* the plans an execute_plan event carries: those the plan builder returns.
\* execute_plan does not read plan_id, one value stands for all
EventPlans ==
    {create_remediation_plan(analysis_result, autonomy_mode, 0) :
        analysis_result \in AnalysisResults, autonomy_mode \in AutonomyModes}

\* lines 258-268: the event is read and execution_result initialised
execute_plan_begin ==
    /\ AgentRuns
    /\ agent_pc = "idle"
    /\ \E event_plan \in EventPlans, autonomy_mode \in AutonomyModes :
          /\ plan' = event_plan
          /\ execution_result' = [autonomy_mode |-> autonomy_mode,
                                  steps_executed |-> <<>>,
                                  status |-> "success"]
    /\ next_step' = 1
    /\ agent_pc' = "loop"
    /\ UNCHANGED <<executor_calls, notifications, analysis, plan_ids>>
    /\ UNCHANGED <<slackVars, runbookVars, verifyVars, similarVars>>

\* the loop leaves a step that did not succeed by break (main.py:277-279)
breaks_after_never(step_result) == FALSE

breaks_after(step_result) == step_result.status # "success"

executes_immediately_by_mode(step, autonomy_mode) ==
    can_auto_execute(step.action, step.risk_level, autonomy_mode)

\* main.py:272, the test of the loop: the annotation stored on the step; the
\* autonomy_mode of the event is not read
executes_immediately(step, autonomy_mode) == step.can_auto_execute

\* lines 271-283: one iteration of the for loop, on an auto-executable step
execute_plan_auto ==
    /\ AgentRuns
    /\ agent_pc = "loop"
    /\ next_step <= Len(plan.steps)
    /\ executes_immediately(plan.steps[next_step],
                            execution_result.autonomy_mode)
    /\ LET step == plan.steps[next_step] IN
       \E outcome \in ExecutorOutcomes :
          LET step_result == execute_step(step, outcome) IN
          /\ executor_calls' = IF step.action \in known_actions
                               THEN Append(executor_calls, step.step_number)
                               ELSE executor_calls
          /\ IF breaks_after(step_result)
             THEN /\ execution_result' =
                        [execution_result EXCEPT
                            !.steps_executed = Append(@, step_result),
                            !.status = "partial_failure"]
                  /\ agent_pc' = "done"
                  /\ next_step' = next_step
             ELSE /\ execution_result' =
                        [execution_result EXCEPT
                            !.steps_executed = Append(@, step_result)]
                  /\ agent_pc' = "loop"
                  /\ next_step' = next_step + 1
    /\ UNCHANGED <<plan, notifications, analysis, plan_ids>>
    /\ UNCHANGED <<slackVars, runbookVars, verifyVars, similarVars>>

\* lines 280-283: one iteration on a step that is not auto-executable; the
\* notification is an asynchronous invoke whose failure is only logged, and
\* the loop goes on to the next step
execute_plan_queue ==
    /\ AgentRuns
    /\ agent_pc = "loop"
    /\ next_step <= Len(plan.steps)
    /\ ~executes_immediately(plan.steps[next_step],
                             execution_result.autonomy_mode)
    /\ LET step == plan.steps[next_step] IN
       /\ \E sent \in BOOLEAN :
             notifications' = IF sent
                              THEN Append(notifications, step.step_number)
                              ELSE notifications
       /\ execution_result' =
             [execution_result EXCEPT
                 !.steps_executed = Append(@, queue_for_approval(step))]
    /\ next_step' = next_step + 1
    /\ UNCHANGED <<agent_pc, plan, executor_calls, analysis, plan_ids>>
    /\ UNCHANGED <<slackVars, runbookVars, verifyVars, similarVars>>

\* line 285 and 292: the loop is exhausted and execution_result returned
execute_plan_return ==
    /\ AgentRuns
    /\ agent_pc = "loop"
    /\ next_step > Len(plan.steps)
    /\ agent_pc' = "done"
    /\ UNCHANGED <<plan, next_step, execution_result, executor_calls,
                   notifications, analysis, plan_ids>>
    /\ UNCHANGED <<slackVars, runbookVars, verifyVars, similarVars>>

\* ------------------------------------------------ runbook manager: store
RunbookIds == 1..MaxRunbooks
FailureTypes == {"oom_killed"}
\* execute_runbook_step knows lambda_invoke, k8s_operation and wait;
\* k8s_operation and wait both end completed without a call that can fail,
\* and "other" stands for any other step type
StepTypes == {"lambda_invoke", "k8s_operation", "other"}
RunbookSteps ==
    UNION {[1..n -> [type : StepTypes]] : n \in 0..MaxRunbookSteps}
\* the risk level a runbook carries
RunbookRiskLevels == {"low", "high"}
RunbookData == [failure_type : FailureTypes, risk_level : RunbookRiskLevels,
                steps : RunbookSteps]

NoRunbook == [runbook_id |-> 0, failure_type |-> None, risk_level |-> None,
              steps |-> <<>>, version |-> 0]

\* json.dumps of a runbook, the Body of put_object: the scalar fields, then
\* the steps in list order
json_dumps(runbook) ==
    <<runbook.runbook_id, runbook.failure_type, runbook.risk_level,
      runbook.version>>
       \o [i \in 1..Len(runbook.steps) |-> runbook.steps[i].type]

json_loads_reversed(body) ==
    [runbook_id |-> body[1], failure_type |-> body[2], risk_level |-> body[3],
     steps |-> [i \in 1..(Len(body) - 4) |-> [type |-> body[Len(body) + 1 - i]]],
     version |-> body[4]]

\* json.loads of the body get_object returns
json_loads(body) ==
    [runbook_id |-> body[1], failure_type |-> body[2], risk_level |-> body[3],
     steps |-> [i \in 1..(Len(body) - 4) |-> [type |-> body[i + 4]]],
     version |-> body[4]]

\* no object under the key
NoObject == <<>>
NoIndexItem == [pattern_id |-> 0, failure_type |-> None, version |-> 0,
                access_count |-> 0, success_count |-> 0, failure_count |-> 0]

\* store_runbook_index builds the item with the three counters at 0
index_item(runbook_id, runbook_data) ==
    [pattern_id |-> runbook_id,
     failure_type |-> runbook_data.failure_type,
     version |-> runbook_data.version,
     access_count |-> 0, success_count |-> 0, failure_count |-> 0]

\* table.put_item inside try/except: a failed write is logged and dropped
store_runbook_index(runbook_id, runbook_data, write_ok) ==
    IF write_ok
    THEN [runbook_index EXCEPT ![runbook_id] = index_item(runbook_id, runbook_data)]
    ELSE runbook_index

\* UpdateExpression 'ADD <counter> :inc' with :inc = 1; DynamoDB creates the
\* item when the key is absent
add_counter(table, runbook_id, counter) ==
    LET item == IF table[runbook_id] = NoIndexItem
                THEN [NoIndexItem EXCEPT !.pattern_id = runbook_id]
                ELSE table[runbook_id]
    IN [table EXCEPT ![runbook_id] =
           IF counter = "access_count"
           THEN [item EXCEPT !.access_count = @ + 1]
           ELSE IF counter = "success_count"
           THEN [item EXCEPT !.success_count = @ + 1]
           ELSE [item EXCEPT !.failure_count = @ + 1]]

\* store_runbook: uuid4 gives an id no stored runbook has; the S3 write
\* raises on failure, the index write does not
store_runbook ==
    /\ RunbookManagerRuns
    /\ Len(store_returns) < MaxRunbooks
    /\ \E runbook_data \in
             Delivered(store_returns = <<>>, RunbookData,
                       store_returns[Len(store_returns)].runbook_data),
          s3_ok \in BOOLEAN :
          LET runbook_id == Len(store_returns) + 1
              stored == [runbook_id |-> runbook_id,
                         failure_type |-> runbook_data.failure_type,
                         risk_level |-> runbook_data.risk_level,
                         steps |-> runbook_data.steps,
                         version |-> 1]
          IN IF s3_ok
             THEN \E index_ok \in BOOLEAN :
                  /\ s3_runbooks' = [s3_runbooks EXCEPT
                                        ![runbook_id] = json_dumps(stored)]
                  /\ runbook_index' =
                        store_runbook_index(runbook_id, stored, index_ok)
                  /\ store_returns' =
                        Append(store_returns,
                               [status |-> "success", runbook_id |-> runbook_id,
                                index_written |-> index_ok,
                                runbook_data |-> runbook_data])
             ELSE /\ store_returns' =
                        Append(store_returns,
                               [status |-> "error", runbook_id |-> runbook_id,
                                index_written |-> FALSE,
                                runbook_data |-> runbook_data])
                  /\ UNCHANGED <<s3_runbooks, runbook_index>>
    /\ UNCHANGED <<rb_pc, rb_runbook, rb_next, rb_attempts, rb_execution,
                   updates, updating, retrievals, executions>>
    /\ UNCHANGED <<agentVars, slackVars, verifyVars, similarVars>>

\* ------------------------------------- runbook manager: execute_runbook
\* recorded: store_execution_result wrote the execution and its counter
NoRunbookExecution == [runbook_id |-> 0, status |-> None, steps |-> <<>>,
                       recorded |-> FALSE]

\* update_runbook_access_count: the failure of the update is logged and dropped
update_runbook_access_count(runbook_id, write_ok) ==
    IF write_ok THEN add_counter(runbook_index, runbook_id, "access_count")
    ELSE runbook_index

\* lines 319-333: retrieve_runbook raises when the object cannot be read, and
\* execute_runbook then returns a failed result without touching the counters
execute_runbook_begin ==
    /\ RunbookManagerRuns
    /\ rb_pc = "idle"
    /\ updates = 0
    /\ \E runbook_id \in RunbookIds, read_ok \in BOOLEAN :
          IF read_ok /\ s3_runbooks[runbook_id] # NoObject
          THEN \E count_ok \in BOOLEAN :
               /\ rb_runbook' = json_loads(s3_runbooks[runbook_id])
               /\ runbook_index' = update_runbook_access_count(runbook_id, count_ok)
               /\ retrievals' = IF count_ok
                                 THEN [retrievals EXCEPT ![runbook_id] = @ + 1]
                                 ELSE retrievals
               /\ rb_execution' = [runbook_id |-> runbook_id,
                                   status |-> "running", steps |-> <<>>,
                                   recorded |-> FALSE]
               /\ rb_next' = 1
               /\ rb_pc' = "loop"
          ELSE /\ rb_execution' = [runbook_id |-> runbook_id,
                                   status |-> "failed", steps |-> <<>>,
                                   recorded |-> FALSE]
               /\ rb_pc' = "done"
               /\ UNCHANGED <<rb_runbook, runbook_index, rb_next, retrievals>>
    /\ UNCHANGED <<s3_runbooks, store_returns, rb_attempts, updates, updating,
                   executions>>
    /\ UNCHANGED <<agentVars, slackVars, verifyVars, similarVars>>

\* execute_runbook_step: the status of one step; outcome is what the invoked
\* Lambda answered
execute_runbook_step(step, outcome) ==
    IF step.type = "lambda_invoke"
    THEN [step_type |-> step.type,
          status |-> IF outcome = "200" THEN "completed" ELSE "failed"]
    ELSE IF step.type \in {"k8s_operation", "wait"}
    THEN [step_type |-> step.type, status |-> "completed"]
    ELSE [step_type |-> step.type, status |-> "failed"]

\* runbook_manager.py:339-342
runbook_breaks_after(step_result) == step_result.status = "failed"

\* lines 335-342: one iteration of the for loop
execute_runbook_iteration ==
    /\ RunbookManagerRuns
    /\ rb_pc = "loop"
    /\ rb_next <= Len(rb_runbook.steps)
    /\ \E outcome \in ExecutorOutcomes :
          LET step_result ==
                  execute_runbook_step(rb_runbook.steps[rb_next], outcome)
          IN IF runbook_breaks_after(step_result)
             THEN /\ rb_execution' = [rb_execution EXCEPT
                                         !.steps = Append(@, step_result),
                                         !.status = "failed"]
                  /\ rb_pc' = "finish"
                  /\ rb_next' = rb_next
             ELSE /\ rb_execution' = [rb_execution EXCEPT
                                         !.steps = Append(@, step_result)]
                  /\ rb_pc' = "loop"
                  /\ rb_next' = rb_next + 1
    /\ rb_attempts' = Append(rb_attempts, rb_next)
    /\ UNCHANGED <<s3_runbooks, runbook_index, store_returns, rb_runbook,
                   updates, updating, retrievals, executions>>
    /\ UNCHANGED <<agentVars, slackVars, verifyVars, similarVars>>

store_execution_result_swapped(result, s3_ok, count_ok) ==
    IF s3_ok /\ count_ok
    THEN add_counter(runbook_index, result.runbook_id,
                     IF result.status = "completed" THEN "failure_count"
                     ELSE "success_count")
    ELSE runbook_index

\* store_execution_result: the execution object is written first; when a
\* write fails the rest is skipped and the failure only logged
store_execution_result(result, s3_ok, count_ok) ==
    IF s3_ok /\ count_ok
    THEN add_counter(runbook_index, result.runbook_id,
                     IF result.status = "completed" THEN "success_count"
                     ELSE "failure_count")
    ELSE runbook_index

\* lines 344-352: after the loop
execute_runbook_finish ==
    /\ RunbookManagerRuns
    /\ \/ rb_pc = "finish"
       \/ rb_pc = "loop" /\ rb_next > Len(rb_runbook.steps)
    /\ LET result == IF rb_execution.status = "running"
                     THEN [rb_execution EXCEPT !.status = "completed"]
                     ELSE rb_execution
       IN \E s3_ok \in BOOLEAN :
          \E count_ok \in IF s3_ok THEN BOOLEAN ELSE {FALSE} :
             /\ rb_execution' = [result EXCEPT !.recorded = s3_ok /\ count_ok]
             /\ runbook_index' = store_execution_result(result, s3_ok, count_ok)
             /\ executions' = IF s3_ok /\ count_ok
                              THEN [executions EXCEPT ![result.runbook_id] = @ + 1]
                              ELSE executions
    /\ rb_pc' = "done"
    /\ UNCHANGED <<s3_runbooks, store_returns, rb_runbook, rb_next, rb_attempts,
                   updates, updating, retrievals>>
    /\ UNCHANGED <<agentVars, slackVars, verifyVars, similarVars>>

\* ------------------------------------- runbook manager: update_runbook
\* update_runbook is a read of the object followed by a write of it, two
\* requests to S3 with nothing that holds the object in between, and Lambda
\* runs the calls of several events at once: a call is in updating from its
\* read to its write.
\* A behaviour that updates runbooks executes none: the execution keeps the
\* runbook it read, and what execute_runbook writes is the counter of
\* store_execution_result.

\* lines 225-226: retrieve_runbook reads the object and counts the access;
\* a failed read raises. The counter write is taken to succeed here: its
\* failure is logged and dropped, and execute_runbook_begin covers it.
update_runbook_retrieve ==
    /\ RunbookManagerRuns
    /\ rb_pc = "idle"
    /\ updates < MaxUpdates
    /\ updates' = updates + 1
    /\ \E runbook_id \in RunbookIds, read_ok \in BOOLEAN :
          IF read_ok /\ s3_runbooks[runbook_id] # NoObject
          THEN /\ runbook_index' =
                     update_runbook_access_count(runbook_id, TRUE)
               /\ retrievals' = [retrievals EXCEPT ![runbook_id] = @ + 1]
               /\ updating' =
                     Append(updating,
                            [runbook_id |-> runbook_id,
                             existing_runbook |->
                                json_loads(s3_runbooks[runbook_id])])
          ELSE UNCHANGED <<runbook_index, retrievals, updating>>
    /\ UNCHANGED <<s3_runbooks, store_returns, rb_pc, rb_runbook, rb_next,
                   rb_attempts, rb_execution, executions>>
    /\ UNCHANGED <<agentVars, slackVars, verifyVars, similarVars>>

\* lines 228-231: the runbook_data of the event is merged into what was read
\* and version raised by one
updated_runbook(existing_runbook, failure_type) ==
    [existing_runbook EXCEPT !.failure_type = failure_type,
                             !.version = @ + 1]

\* lines 237-254: the object is written back and store_runbook_index puts
\* the index item anew. A failed S3 write raises; the index write does not.
update_runbook_put(k, s3_ok, index_ok) ==
    /\ RunbookManagerRuns
    /\ k \in 1..Len(updating)
    /\ \E failure_type \in FailureTypes :
          LET runbook_id == updating[k].runbook_id
              existing_runbook ==
                 updated_runbook(updating[k].existing_runbook, failure_type)
          IN /\ s3_runbooks' =
                  IF s3_ok
                  THEN [s3_runbooks EXCEPT
                          ![runbook_id] = json_dumps(existing_runbook)]
                  ELSE s3_runbooks
             /\ runbook_index' =
                  IF s3_ok /\ index_ok
                  THEN [runbook_index EXCEPT
                          ![runbook_id] =
                             index_item(runbook_id, existing_runbook)]
                  ELSE runbook_index
    /\ updating' = SubSeq(updating, 1, k - 1)
                      \o SubSeq(updating, k + 1, Len(updating))
    /\ UNCHANGED <<store_returns, rb_pc, rb_runbook, rb_next, rb_attempts,
                   rb_execution, updates, retrievals, executions>>
    /\ UNCHANGED <<agentVars, slackVars, verifyVars, similarVars>>

\* the write of any call in flight, with any outcome of its two requests
update_runbook_write ==
    \E k \in 1..Len(updating), s3_ok \in BOOLEAN, index_ok \in BOOLEAN :
       (s3_ok \/ ~index_ok) /\ update_runbook_put(k, s3_ok, index_ok)

\* ------------------------------------------------ slack bot: the requests
\* /chaos node-failure asks for approval before it acts; pod-eviction,
\* network-latency and api-throttling do the same under their own action name
ChaosActions == {"node_failure"}
\* the Slack user who resolves requests, and the one who types the commands
Users == {"U2"}
Requesters == {"U1"}
Times == 0..MaxTime
\* approval_id = f"<action>-{int(time.time())}"
ApprovalIds == ChaosActions \X Times
approval_id_of(action, time) == <<action, time>>

NoRequest == [action |-> None, user_id |-> None, status |-> None,
              approved_by |-> None]

\* store_approval_request: put_item replaces the item under approval_id; a
\* failed write is logged and dropped
store_approval_request(approval_id, request, write_ok) ==
    IF write_ok THEN [approvals EXCEPT ![approval_id] = request]
    ELSE approvals

\* handle_node_failure_command, handle_pod_eviction_command: the request is
\* stored as pending under an id made of the action and int(time.time()),
\* which never runs backwards, and the message with the approval buttons is
\* returned
handle_chaos_command ==
    /\ SlackRuns
    /\ Len(requests) < MaxRequests
    /\ \E action \in ChaosActions, user_id \in Requesters, write_ok \in BOOLEAN,
          time \in now..MaxTime :
          LET approval_id == approval_id_of(action, time) IN
          /\ now' = time
          /\ approvals' = store_approval_request(
                              approval_id,
                              [action |-> action, user_id |-> user_id,
                               status |-> "pending", approved_by |-> None],
                              write_ok)
          /\ requests' = Append(requests, [approval_id |-> approval_id,
                                           stored |-> write_ok])
    /\ UNCHANGED <<handlers, invoked>>
    /\ UNCHANGED <<agentVars, runbookVars, verifyVars, similarVars>>

\* ---------------------------------------------- slack bot: the resolutions
\* the text of /approve when it names no request ever issued
UnknownId == <<"no-such-request", 0>>
\* the ids on the buttons of the messages returned so far
IssuedIds == {requests[r].approval_id : r \in 1..Len(requests)}

\* get_approval_request: the item, or None when there is none or the read failed
get_approval_request(approval_id, read_ok) ==
    IF read_ok /\ approval_id \in ApprovalIds
    THEN approvals[approval_id] ELSE NoRequest

\* update_approval_request: SET status and approved_by, unconditionally; a
\* failed write is logged and dropped
update_approval_request(approval_id, status, user_id, write_ok) ==
    IF write_ok
    THEN [approvals EXCEPT ![approval_id].status = status,
                           ![approval_id].approved_by = user_id]
    ELSE approvals

accepts_any(approval_request) == approval_request # NoRequest

\* the two checks handle_approval and handle_approve_command make on the item
\* they read (slack_bot.py:814-818 and 775-779)
accepts(approval_request) ==
    approval_request # NoRequest /\ approval_request.status = "pending"

refusal(approval_request) ==
    IF approval_request = NoRequest THEN "not_found" ELSE "already_resolved"

\* A handler that has returned keeps the id it was called with, the status
\* of the item it read and its answer.
Returned(approval_id, found, response) ==
    [approval_id |-> approval_id, user_id |-> None, status |-> None,
     found |-> found, pc |-> "done", response |-> response,
     written |-> FALSE]

\* pc of a handler: update, execute, done
Handler(approval_id, user_id, status, approval_request) ==
    IF accepts(approval_request)
    THEN [approval_id |-> approval_id, user_id |-> user_id,
          status |-> status, found |-> approval_request.status,
          pc |-> "update", response |-> None, written |-> FALSE]
    ELSE Returned(approval_id, approval_request.status,
                  refusal(approval_request))

\* handle_approval (a button click carrying approve:<id> or reject:<id>) up
\* to its two checks
handle_approval_read ==
    /\ SlackRuns
    /\ Len(handlers) < MaxHandlers
    /\ \E approval_id \in IssuedIds, user_id \in Users,
          status \in {"approved", "rejected"}, read_ok \in BOOLEAN :
          handlers' = Append(handlers,
                             Handler(approval_id, user_id, status,
                                     get_approval_request(approval_id, read_ok)))
    /\ UNCHANGED <<now, approvals, requests, invoked>>
    /\ UNCHANGED <<agentVars, runbookVars, verifyVars, similarVars>>

\* handle_approve_command (/approve <id>) up to its two checks
handle_approve_command_read ==
    /\ SlackRuns
    /\ Len(handlers) < MaxHandlers
    /\ \E approval_id \in IssuedIds \cup {UnknownId}, user_id \in Users,
          read_ok \in BOOLEAN :
          handlers' = Append(handlers,
                             Handler(approval_id, user_id, "approved",
                                     get_approval_request(approval_id, read_ok)))
    /\ UNCHANGED <<now, approvals, requests, invoked>>
    /\ UNCHANGED <<agentVars, runbookVars, verifyVars, similarVars>>

runs_action_always(status) == TRUE

\* slack_bot.py:823: only an approval goes on to execute_approved_action
runs_action(status) == status = "approved"

\* lines 821 and 782: the status is written, and a rejection answered
handle_approval_update(h) ==
    /\ SlackRuns
    /\ h \in 1..Len(handlers)
    /\ handlers[h].pc = "update"
    /\ \E write_ok \in BOOLEAN :
          /\ approvals' = update_approval_request(handlers[h].approval_id,
                                                  handlers[h].status,
                                                  handlers[h].user_id, write_ok)
          /\ handlers' =
                [handlers EXCEPT
                    ![h] = IF runs_action(handlers[h].status)
                           THEN [@ EXCEPT !.written = write_ok,
                                          !.pc = "execute"]
                           ELSE Returned(@.approval_id, @.found, "rejected")]
    /\ UNCHANGED <<now, requests, invoked>>
    /\ UNCHANGED <<agentVars, runbookVars, verifyVars, similarVars>>

\* lines 825-826 and 785-787: execute_approved_action on the item read at
\* the start, then the answer
handle_approval_execute(h) ==
    /\ SlackRuns
    /\ h \in 1..Len(handlers)
    /\ handlers[h].pc = "execute"
    /\ invoked' = [invoked EXCEPT ![handlers[h].approval_id] = @ + 1]
    /\ handlers' = [handlers EXCEPT
                       ![h] = Returned(@.approval_id, @.found,
                                       "approved_and_executed")]
    /\ UNCHANGED <<now, approvals, requests>>
    /\ UNCHANGED <<agentVars, runbookVars, verifyVars, similarVars>>

\* ------------------------------------------- bedrock-agent: verify_recovery
\* the checks perform_verification_check knows; "disk_space" stands for any
\* other name
known_checks == {"pod_status", "no_errors", "metrics_normal"}
CheckNames == {"pod_status", "no_errors", "disk_space"}
\* event['checks']: a list of names, or a value that cannot be iterated
CheckLists == UNION {[1..n -> CheckNames] : n \in 0..MaxChecks}
NotAList == <<"null">>
\* the statuses a check result can carry
CheckStatuses == {"passed", "failed", "skipped", "error"}

\* perform_verification_check: the three known checks answer passed, any
\* other name is answered skipped
perform_verification_check(check) ==
    IF check \in known_checks
    THEN [check |-> check, status |-> "passed"]
    ELSE [check |-> check, status |-> "skipped"]

verdict_after_lenient(overall_status, status) ==
    IF status = "failed" THEN "failed" ELSE overall_status

\* main.py:517-518: a result that is not passed turns the verdict to failed
verdict_after(overall_status, status) ==
    IF status # "passed" THEN "failed" ELSE overall_status

\* the verdict the loop of verify_recovery reaches over a list of statuses
RECURSIVE overall_status_of(_)
overall_status_of(statuses) ==
    IF statuses = <<>> THEN "success"
    ELSE verdict_after(overall_status_of(SubSeq(statuses, 1, Len(statuses) - 1)),
                       statuses[Len(statuses)])

NoVerification == [checks_performed |-> <<>>, overall_status |-> None]

\* lines 499-510 and 524-527: the event is read and verification_result
\* initialised; a checks value that cannot be iterated raises at the for
\* statement and the verdict is error
verify_recovery_begin ==
    /\ VerifierRuns
    /\ verify_pc = "idle"
    /\ \E event_checks \in CheckLists \cup {NotAList} :
          /\ checks' = event_checks
          /\ IF event_checks = NotAList
             THEN /\ verification_result' = [checks_performed |-> <<>>,
                                             overall_status |-> "error"]
                  /\ verify_pc' = "done"
                  /\ next_check' = next_check
             ELSE /\ verification_result' = [checks_performed |-> <<>>,
                                             overall_status |-> "success"]
                  /\ verify_pc' = "loop"
                  /\ next_check' = 1
    /\ UNCHANGED <<agentVars, slackVars, runbookVars, similarVars>>

continues_after_check_never(check_result) == check_result.status = "passed"

\* the for loop of verify_recovery has no break (main.py:513-518)
continues_after_check(check_result) == TRUE

\* lines 513-518: one iteration of the for loop
verify_recovery_check ==
    /\ VerifierRuns
    /\ verify_pc = "loop"
    /\ next_check <= Len(checks)
    /\ LET check_result == perform_verification_check(checks[next_check]) IN
       /\ verification_result' =
             [checks_performed |->
                 Append(verification_result.checks_performed, check_result),
              overall_status |->
                 verdict_after(verification_result.overall_status,
                               check_result.status)]
       /\ IF continues_after_check(check_result)
          THEN verify_pc' = "loop" /\ next_check' = next_check + 1
          ELSE verify_pc' = "done" /\ next_check' = next_check
    /\ UNCHANGED checks
    /\ UNCHANGED <<agentVars, slackVars, runbookVars, similarVars>>

\* lines 520 and 527: the loop is exhausted and verification_result returned
verify_recovery_return ==
    /\ VerifierRuns
    /\ verify_pc = "loop"
    /\ next_check > Len(checks)
    /\ verify_pc' = "done"
    /\ UNCHANGED <<checks, next_check, verification_result>>
    /\ UNCHANGED <<agentVars, slackVars, runbookVars, similarVars>>

\* ------------------------------- runbook manager: get_similar_runbooks
\* the weights of calculate_similarity, in tenths
Features == {"failure_type", "cluster", "namespace", "resource_type",
             "severity", "actions"}
weights == [failure_type |-> 3, cluster |-> 1, namespace |-> 1,
            resource_type |-> 2, severity |-> 1, actions |-> 2]

\* The runbook_data a search is made for: event.get('runbook_data', {}). A
\* field is None when the dictionary has no such key; actions is the list
\* of its action types, here a list of one.
SearchData ==
    [failure_type : {"oom_killed"}, cluster : {"c1"},
     namespace : {"default"}, resource_type : {"deployment", None},
     severity : {"high"}, actions : {"patch_deployment"}]
NoSearch == [failure_type |-> None, cluster |-> None, namespace |-> None,
             resource_type |-> None, severity |-> None, actions |-> None]

\* dict.get(key, default)
get(dictionary, key, default) ==
    IF dictionary[key] = None THEN default ELSE dictionary[key]

\* extract_runbook_features: every feature is given a value, the default
\* '' (severity: 'medium') when the runbook_data has no such key
extract_runbook_features(runbook_data) ==
    [failure_type |-> get(runbook_data, "failure_type", ""),
     cluster |-> get(runbook_data, "cluster", ""),
     namespace |-> get(runbook_data, "namespace", ""),
     resource_type |-> get(runbook_data, "resource_type", ""),
     severity |-> get(runbook_data, "severity", "medium"),
     actions |-> runbook_data.actions]

\* The items a scan returns. store_runbook_index writes the first five
\* features and no actions attribute; calculate_similarity also weighs an
\* actions attribute when the item carries one; an item created by an ADD on
\* an absent key carries counters only. The items are those of the
\* deployments of one cluster and namespace: with cluster and namespace
\* equal to the search's, the float sums of the code compare to 0.7 as the
\* exact sums below do. Every item has one failed run and at most one
\* successful run on record.
IndexedItems ==
    [failure_type : {"oom_killed", "image_pull_error"},
     cluster : {"c1"}, namespace : {"default"},
     resource_type : {"deployment"},
     severity : {"high", "medium"},
     actions : {None, "patch_deployment", "rollout_restart"},
     success_count : {0, 1}, failure_count : {1}]
CountersOnly == [failure_type |-> None, cluster |-> None, namespace |-> None,
                 resource_type |-> None, severity |-> None, actions |-> None,
                 success_count |-> 0, failure_count |-> 1]
IndexItems == IndexedItems \cup {CountersOnly}
Catalogs == UNION {[1..n -> IndexItems] : n \in 0..MaxCatalog}

\* 'feature in runbook2'
Carries(runbook2, feature) == runbook2[feature] # None

\* the sum of the weights of a set of features
RECURSIVE WeightOf(_)
WeightOf(fs) ==
    IF fs = {} THEN 0
    ELSE LET f == CHOOSE x \in fs : TRUE IN weights[f] + WeightOf(fs \ {f})

\* calculate_similarity, as a fraction: the weights of the features that are
\* equal over the weights of the features the item carries
similarity_score_num(features1, runbook2) ==
    WeightOf({f \in Features : Carries(runbook2, f)
                                  /\ features1[f] = runbook2[f]})
\* 'feature in features1' holds for every feature of
\* extract_runbook_features
total_weight(features1, runbook2) ==
    WeightOf({f \in Features : Carries(runbook2, f)})

\* similarity_score / total_weight if total_weight > 0 else 0.0, in fortieths
\* (total_weight is 0, 8 or 10 tenths on the items above)
calculate_similarity(features1, runbook2) ==
    IF total_weight(features1, runbook2) > 0
    THEN (similarity_score_num(features1, runbook2) * 40)
            \div total_weight(features1, runbook2)
    ELSE 0

is_similar_inclusive(similarity_score) == similarity_score >= 28

\* runbook_manager.py:303, similarity_score > 0.7 (28 fortieths)
is_similar(similarity_score) == similarity_score > 28

\* the loop of lines 301-305: the items over the threshold, in scan order,
\* each with its similarity_score
RECURSIVE Similar(_, _)
Similar(target_features, runbooks) ==
    IF runbooks = <<>> THEN <<>>
    ELSE LET runbook == Head(runbooks)
             similarity_score ==
                 calculate_similarity(target_features, runbook)
         IN IF is_similar(similarity_score)
            THEN <<[runbook |-> runbook,
                    similarity_score |-> similarity_score]>>
                 \o Similar(target_features, Tail(runbooks))
            ELSE Similar(target_features, Tail(runbooks))

\* list.sort(key = similarity_score, reverse = True): stable, so items of
\* equal score keep their order
RECURSIVE InsertByScore(_, _)
InsertByScore(entry, sorted) ==
    IF sorted = <<>> THEN <<entry>>
    ELSE IF Head(sorted).similarity_score >= entry.similarity_score
         THEN <<Head(sorted)>> \o InsertByScore(entry, Tail(sorted))
         ELSE <<entry>> \o sorted
RECURSIVE SortByScore(_)
SortByScore(entries) ==
    IF entries = <<>> THEN <<>>
    ELSE InsertByScore(entries[Len(entries)],
                       SortByScore(SubSeq(entries, 1, Len(entries) - 1)))

\* similar_runbooks[:10]
Top10(entries) ==
    SubSeq(entries, 1, IF Len(entries) < 10 THEN Len(entries) ELSE 10)

\* get_similar_runbooks: a scan that raises is answered with the empty list
get_similar_runbooks ==
    /\ SimilarRuns
    /\ similar_pc = "idle"
    /\ \E runbook_data \in SearchData, runbooks \in Catalogs,
          scan_ok \in BOOLEAN :
       /\ search_data' = runbook_data
       /\ IF scan_ok
          THEN /\ all_runbooks' = runbooks
               /\ similar_runbooks' =
                     Top10(SortByScore(Similar(
                        extract_runbook_features(runbook_data), runbooks)))
               /\ similar_pc' = "done"
          ELSE /\ all_runbooks' = <<>>
               /\ similar_runbooks' = <<>>
               /\ similar_pc' = "error"
    /\ UNCHANGED <<agentVars, slackVars, runbookVars, verifyVars>>

Init ==
    /\ agent_pc = "idle"
    /\ plan = NoPlan
    /\ next_step = 0
    /\ execution_result = NoExecution
    /\ executor_calls = <<>>
    /\ notifications = <<>>
    /\ analysis = NoAnalysis
    /\ plan_ids = <<>>
    /\ now = 0
    /\ approvals = [id \in ApprovalIds |-> NoRequest]
    /\ requests = <<>>
    /\ handlers = <<>>
    /\ invoked = [id \in ApprovalIds |-> 0]
    /\ s3_runbooks = [id \in RunbookIds |-> NoObject]
    /\ runbook_index = [id \in RunbookIds |-> NoIndexItem]
    /\ store_returns = <<>>
    /\ rb_pc = "idle"
    /\ rb_runbook = NoRunbook
    /\ rb_next = 0
    /\ rb_attempts = <<>>
    /\ rb_execution = NoRunbookExecution
    /\ updates = 0
    /\ updating = <<>>
    /\ retrievals = [id \in RunbookIds |-> 0]
    /\ executions = [id \in RunbookIds |-> 0]
    /\ verify_pc = "idle"
    /\ checks = <<>>
    /\ next_check = 0
    /\ verification_result = NoVerification
    /\ similar_pc = "idle"
    /\ search_data = NoSearch
    /\ all_runbooks = <<>>
    /\ similar_runbooks = <<>>

Next ==
    \/ analyze_failure
    \/ execute_plan_begin
    \/ execute_plan_auto
    \/ execute_plan_queue
    \/ execute_plan_return
    \/ handle_chaos_command
    \/ handle_approval_read
    \/ handle_approve_command_read
    \/ \E h \in 1..MaxHandlers : handle_approval_update(h)
    \/ \E h \in 1..MaxHandlers : handle_approval_execute(h)
    \/ store_runbook
    \/ execute_runbook_begin
    \/ execute_runbook_iteration
    \/ execute_runbook_finish
    \/ update_runbook_retrieve
    \/ update_runbook_write
    \/ verify_recovery_begin
    \/ verify_recovery_check
    \/ verify_recovery_return
    \/ get_similar_runbooks

Spec == Init /\ [][Next]_vars

\* ---------------------------------------- verify_recovery, probes that raise
\* check_pod_status, check_no_errors and check_metrics_normal stand in for
\* probes of the cluster and cannot raise as written. When a probe does raise
\* inside perform_verification_check, the exception leaves the for loop and
\* is caught by the except of verify_recovery (main.py:522-525): the verdict
\* is set to error and the result returned as it stands.
verify_recovery_raise ==
    /\ VerifierRuns
    /\ verify_pc = "loop"
    /\ next_check <= Len(checks)
    /\ checks[next_check] \in known_checks
    /\ verification_result' =
          [verification_result EXCEPT !.overall_status = "error"]
    /\ verify_pc' = "done"
    /\ UNCHANGED <<checks, next_check>>
    /\ UNCHANGED <<agentVars, slackVars, runbookVars, similarVars>>

NextProbes ==
    \/ Next
    \/ verify_recovery_raise

\* the program with probes that can raise
SpecProbes == Init /\ [][NextProbes]_vars
\* =================================================================== claims
StepResults == execution_result.steps_executed
StrictlyIncreasing(seq) ==
    \A i, j \in 1..Len(seq) : i < j => seq[i] < seq[j]

\* C1: in one pass of execute_plan or execute_runbook the steps are attempted
\* in declared order, each at most once, and no step is attempted after a
\* step whose result is failed.
C1_OrderedOnceHaltOnFailure ==
    /\ Len(StepResults) <= Len(plan.steps)
    /\ \A i \in 1..Len(StepResults) :
          /\ StepResults[i].step_number = i
          /\ StepResults[i].action = plan.steps[i].action
          /\ StepResults[i].status = "failed"
                => i = Len(StepResults) /\ agent_pc = "done"
    /\ StrictlyIncreasing(executor_calls)
    /\ \A c \in 1..Len(executor_calls) :
          executor_calls[c] \in 1..Len(StepResults)
    /\ Len(rb_attempts) <= Len(rb_runbook.steps)
    /\ Len(rb_execution.steps) = Len(rb_attempts)
    /\ \A i \in 1..Len(rb_attempts) :
          /\ rb_attempts[i] = i
          /\ rb_execution.steps[i].step_type = rb_runbook.steps[i].type
          /\ rb_execution.steps[i].status = "failed"
                => i = Len(rb_attempts) /\ rb_pc \in {"finish", "done"}

\* a two-step plan whose first step failed: the pass is over, step 2 untouched
C1_Witness ==
    /\ agent_pc = "done"
    /\ Len(plan.steps) = 2
    /\ Len(StepResults) = 1
    /\ StepResults[1].status = "failed"
    /\ executor_calls = <<1>>

\* C2: when execute_plan reaches a step whose can_auto_execute is false it
\* records the step as queued_for_approval and stops the pass: nothing after
\* the first queued step is executed or queued.
C2_StopsAtFirstQueued ==
    \A i \in 1..Len(StepResults) :
       /\ ~plan.steps[i].can_auto_execute
             => StepResults[i].status = "queued_for_approval"
       /\ StepResults[i].status = "queued_for_approval"
             => i = Len(StepResults)

\* The run status of the report in the words of the specification: the
\* report's 'success' is completed, 'partial_failure' and 'failed' are failed.
RunStatus ==
    IF execution_result.status = "success" THEN "completed"
    ELSE IF execution_result.status \in {"partial_failure", "failed"}
    THEN "failed"
    ELSE execution_result.status

\* C3: at the end of a pass the run status is completed only if every step
\* of the plan has result success, failed if some step failed, and
\* partially_queued if some step is queued_for_approval.
C3_RunStatusFromResults ==
    agent_pc = "done" =>
       /\ RunStatus = "completed" =>
             /\ Len(StepResults) = Len(plan.steps)
             /\ \A i \in 1..Len(StepResults) : StepResults[i].status = "success"
       /\ (\E i \in 1..Len(StepResults) : StepResults[i].status = "failed")
             => RunStatus = "failed"
       /\ (\E i \in 1..Len(StepResults) :
              StepResults[i].status = "queued_for_approval")
             => RunStatus = "partially_queued"

\* the resolutions of approval_id that passed the two checks
Accepted(approval_id) ==
    {h \in 1..Len(handlers) :
        /\ handlers[h].approval_id = approval_id
        /\ handlers[h].found = "pending"}

\* C4: for every approval id at most one resolution is accepted and
\* execute_approved_action runs at most once, whatever the interleaving of
\* button clicks and /approve commands.
C4_ResolvedAndInvokedOnce ==
    \A approval_id \in ApprovalIds :
       /\ Cardinality(Accepted(approval_id)) <= 1
       /\ invoked[approval_id] <= 1

\* the item a resolution of approval_id finds in the table
Stored(approval_id) ==
    IF approval_id \in ApprovalIds THEN approvals[approval_id] ELSE NoRequest
\* handler h takes its first step, the read and the two checks
Starts(h) == Len(handlers) = h - 1 /\ Len(handlers') = h

\* C5: a resolution that finds no request is refused as not found, one that
\* finds a request that is not pending is refused as already resolved; a
\* refused resolution leaves the table unchanged, executes nothing and never
\* acts later.
C5_RefusalLeavesStoreAlone ==
    [][\A h \in 1..MaxHandlers :
          /\ Starts(h) =>
                LET r == handlers'[h] IN
                /\ Stored(r.approval_id) = NoRequest => r.found = None
                /\ r.found # None => r.found = Stored(r.approval_id).status
                /\ r.found = None => r.pc = "done" /\ r.response = "not_found"
                /\ r.found \in {"approved", "rejected"}
                      => r.pc = "done" /\ r.response = "already_resolved"
                /\ approvals' = approvals
                /\ invoked' = invoked
          /\ (h <= Len(handlers) /\ handlers[h].found # "pending")
                => handlers'[h] = handlers[h]
          /\ (h <= Len(handlers) /\ handlers'[h] # handlers[h]
                 /\ (approvals' # approvals \/ invoked' # invoked))
                => handlers[h].found = "pending"
      ]_vars

\* a resolution of a request that had been resolved was refused, and the
\* table still holds what the first resolution wrote
C5_Witness ==
    \E h \in 1..Len(handlers) :
       /\ handlers[h].response = "already_resolved"
       /\ handlers[h].found \in {"approved", "rejected"}
       /\ approvals[handlers[h].approval_id].status = handlers[h].found
       /\ invoked[handlers[h].approval_id] <= 1

\* C6: the status of a request is pending, approved or rejected, and once it
\* is approved or rejected it never changes again.
C6_TerminalStatus ==
    [][\A approval_id \in ApprovalIds :
          /\ approvals'[approval_id].status
                \in {None, "pending", "approved", "rejected"}
          /\ approvals[approval_id].status \in {"approved", "rejected"}
                => approvals'[approval_id].status = approvals[approval_id].status
      ]_vars

\* the pending requests in the approval table for the action of a step
PendingFor(action) ==
    {approval_id \in ApprovalIds :
        /\ approvals[approval_id].status = "pending"
        /\ approvals[approval_id].action = action}

\* C7: at the end of a pass every step reported queued_for_approval has
\* exactly one pending request in the approval table.
C7_OnePendingPerQueuedStep ==
    agent_pc = "done" =>
       \A i \in 1..Len(StepResults) :
          StepResults[i].status = "queued_for_approval"
             => Cardinality(PendingFor(StepResults[i].action)) = 1

\* C8: a failed write aborts the operation: no approval prompt is returned
\* for a request that was not stored, no approved action is executed when
\* the change to approved was not written, and store_runbook does not report
\* success when the index was not written.
C8_AbortOnFailedWrite ==
    /\ \A r \in 1..Len(requests) : requests[r].stored
    /\ \A h \in 1..Len(handlers) :
          handlers[h].pc = "execute" => handlers[h].written
    /\ \A k \in 1..Len(store_returns) :
          store_returns[k].status = "success" => store_returns[k].index_written

\* handler h, resolving as rejected, takes its step after the checks
Rejects(h) ==
    /\ h <= Len(handlers)
    /\ handlers[h].pc = "update"
    /\ handlers[h].status = "rejected"
    /\ handlers'[h] # handlers[h]

AutoExecutable ==
    {<<action, "low", "auto">> : action \in low_risk_actions}
       \cup {<<action, "low", "approve">>
                : action \in StepActions \cup known_actions \cup low_risk_actions}

\* C10: can_auto_execute is the table dry_run -> false, auto -> low risk and
\* allow-listed action, approve -> low risk; every step of a built plan
\* carries that value for its action, its risk level and the plan's mode.
C10_GateTable ==
    /\ agent_pc = "planned" =>
          \A action \in StepActions \cup known_actions \cup low_risk_actions,
             risk_level \in RiskLevels,
             autonomy_mode \in {"dry_run", "auto", "approve"} :
             can_auto_execute(action, risk_level, autonomy_mode)
                <=> <<action, risk_level, autonomy_mode>> \in AutoExecutable
    /\ plan.autonomy_mode \in {"dry_run", "auto", "approve"} =>
          \A i \in 1..Len(plan.steps) :
             plan.steps[i].can_auto_execute
                <=> <<plan.steps[i].action, plan.steps[i].risk_level,
                      plan.autonomy_mode>> \in AutoExecutable

\* a plan in auto mode with a step let through and a low-risk step held back
\* because its action is not allow-listed
C10_Witness ==
    /\ plan.autonomy_mode = "auto"
    /\ Len(plan.steps) = 2
    /\ plan.steps[1].can_auto_execute
    /\ plan.steps[2].risk_level = "low"
    /\ ~plan.steps[2].can_auto_execute

\* C11: in an execution pass whose autonomy_mode is dry_run no step of the
\* plan is passed to the Action Executor.
C11_DryRunPassExecutesNothing ==
    execution_result.autonomy_mode = "dry_run" => executor_calls = <<>>

ChecksPerformed == verification_result.checks_performed

\* C12: verify_recovery never stops early: when the pass over a list of
\* checks is over, every check of the list is in checks_performed, in the
\* order of the list and with its own status, whatever the earlier checks
\* answered; during the pass checks_performed is the prefix run so far.
C12_EveryCheckRun ==
    checks # NotAList =>
       /\ Len(ChecksPerformed) <= Len(checks)
       /\ verify_pc = "done" => Len(ChecksPerformed) = Len(checks)
       /\ \A i \in 1..Len(ChecksPerformed) :
             ChecksPerformed[i] = perform_verification_check(checks[i])

\* a check that did not pass was followed by one that ran and passed
C12_Witness ==
    /\ verify_pc = "done"
    /\ Len(checks) = 2
    /\ Len(ChecksPerformed) = 2
    /\ ChecksPerformed[1].status = "skipped"
    /\ ChecksPerformed[2] = [check |-> "pod_status", status |-> "passed"]

StatusLists == UNION {[1..n -> CheckStatuses] : n \in 0..MaxChecks}

\* C13: the overall verdict is success if and only if every configured
\* check reports passed, and failed if any check reports failed: for every
\* list of check statuses the loop can be fed, and for the verdict of every
\* finished pass over a list of checks.
C13_VerdictFromChecks ==
    /\ verify_pc = "done" =>
          \A statuses \in StatusLists :
             /\ overall_status_of(statuses) = "success"
                   <=> \A i \in 1..Len(statuses) : statuses[i] = "passed"
             /\ (\E i \in 1..Len(statuses) : statuses[i] = "failed")
                   => overall_status_of(statuses) = "failed"
    /\ (verify_pc = "done" /\ checks # NotAList) =>
          /\ verification_result.overall_status =
                overall_status_of([i \in 1..Len(ChecksPerformed) |->
                                      ChecksPerformed[i].status])
          /\ verification_result.overall_status = "success"
                <=> \A i \in 1..Len(checks) :
                       perform_verification_check(checks[i]).status = "passed"

\* one pass ended success with every check passed, the verdict of another
\* list is failed because its second check was not passed
C13_Witness ==
    /\ verify_pc = "done"
    /\ Len(checks) = 2
    /\ ChecksPerformed[1].status = "passed"
    /\ ChecksPerformed[2].status # "passed"
    /\ verification_result.overall_status = "failed"

\* the scanned items get_similar_runbooks returned
Returned14 == {similar_runbooks[k].runbook : k \in 1..Len(similar_runbooks)}

Raised(item, counter) ==
    IF counter = "success_count"
    THEN [item EXCEPT !.success_count = @ + 1]
    ELSE [item EXCEPT !.failure_count = @ + 1]
\* the index item as DynamoDB sees it before an ADD: an absent item counts 0
ItemOf(runbook_id) ==
    IF runbook_index[runbook_id] = NoIndexItem
    THEN [NoIndexItem EXCEPT !.pattern_id = runbook_id]
    ELSE runbook_index[runbook_id]
\* execute_runbook recorded a run in this step
Records == ~rb_execution.recorded /\ rb_execution'.recorded

\* C15: a run recorded against a runbook raises exactly one of its learning
\* counters by exactly 1, success_count when the run ended completed and
\* failure_count when it ended failed; the other counter, access_count and
\* the other runbooks stay as they were.
C15_OneCounterPerRun ==
    [][Records =>
          LET runbook_id == rb_execution'.runbook_id IN
          /\ rb_execution'.status \in {"completed", "failed"}
          /\ runbook_index' =
                [runbook_index EXCEPT ![runbook_id] =
                    Raised(ItemOf(runbook_id),
                           IF rb_execution'.status = "completed"
                           THEN "success_count" ELSE "failure_count")]
      ]_vars

\* a completed run and its success_count
C15_Witness ==
    /\ rb_pc = "done"
    /\ rb_execution.recorded
    /\ rb_execution.status = "completed"
    /\ Len(rb_execution.steps) = 2
    /\ runbook_index[rb_execution.runbook_id].success_count = 1
    /\ runbook_index[rb_execution.runbook_id].failure_count = 0

\* C16: counter writes to a runbook are never lost: whatever the order of
\* retrievals, executions and updates, access_count is the number of
\* retrievals performed (those whose counter write DynamoDB accepted) and
\* success_count + failure_count the number of executions recorded.
C16_CountersNeverLost ==
    \A runbook_id \in RunbookIds :
       /\ runbook_index[runbook_id].access_count = retrievals[runbook_id]
       /\ runbook_index[runbook_id].success_count
             + runbook_index[runbook_id].failure_count = executions[runbook_id]

\* C17: round trip: a runbook retrieved by the identifier store_runbook
\* returned, with no update of that identifier before the retrieval (the
\* retrieved version is still 1), has the step sequence (same steps, same
\* order) and the risk level of the runbook that was stored.
C17_RoundTrip ==
    (rb_runbook # NoRunbook /\ rb_runbook.version = 1) =>
       LET r == store_returns[rb_runbook.runbook_id].runbook_data
       IN /\ store_returns[rb_runbook.runbook_id].status = "success"
          /\ rb_runbook.steps = r.steps
          /\ rb_runbook.risk_level = r.risk_level

C17_Witness ==
    /\ rb_runbook # NoRunbook
    /\ rb_runbook.version = 1
    /\ Len(rb_runbook.steps) = 2
    /\ rb_runbook.steps[1].type # rb_runbook.steps[2].type
    /\ rb_runbook.risk_level = "high"
    /\ store_returns[rb_runbook.runbook_id].runbook_data.steps = rb_runbook.steps

\* C18: a plan built from an analysis result has requires_approval true
\* exactly when the analysis risk level is medium or high, and its steps are
\* the remediation steps of the analysis in the same order, each with the
\* can_auto_execute value computed from the step's action, the step's risk
\* level and the plan's autonomy mode.
C18_PlanFromAnalysis ==
    analysis.analysis_type = "new_analysis" =>
       LET remediation_steps == analysis.analysis_result.remediation_steps
       IN /\ plan.requires_approval
                = (analysis.analysis_result.risk_level \in {"medium", "high"})
          /\ plan.autonomy_mode = analysis.autonomy_mode
          /\ Len(plan.steps) = Len(remediation_steps)
          /\ \A i \in 1..Len(plan.steps) :
                /\ plan.steps[i].action = remediation_steps[i].action
                /\ plan.steps[i].risk_level = remediation_steps[i].risk_level
                /\ plan.steps[i].can_auto_execute
                      = can_auto_execute(remediation_steps[i].action,
                                         remediation_steps[i].risk_level,
                                         plan.autonomy_mode)

C18_Witness ==
    /\ analysis.analysis_type = "new_analysis"
    /\ analysis.analysis_result.risk_level = "low"
    /\ ~plan.requires_approval
    /\ Len(plan.steps) = 2
    /\ plan.steps[1].action # plan.steps[2].action
    /\ plan.steps[1].can_auto_execute
    /\ ~plan.steps[2].can_auto_execute

\* C19: plan identifiers are globally unique: any two plans built by
\* separate calls of the plan builder have different plan_id values, two
\* plans built within the same second included.
C19_PlanIdsUnique ==
    \A i, j \in 1..Len(plan_ids) : i # j => plan_ids[i] # plan_ids[j]

\* the plan of the scenario: resource patch, then restart, under approve,
\* approval required and no step auto-executable
OomScenarioPlan(p) ==
    /\ p.autonomy_mode = "approve"
    /\ p.requires_approval
    /\ Len(p.steps) = 2
    /\ p.steps[1].action = "patch_deployment"
    /\ p.steps[2].action = "rollout_restart"
    /\ \A i \in 1..2 : ~p.steps[i].can_auto_execute

\* C20: for an OOM-killed failure signature with no existing runbook and
\* autonomy_mode approve the plan builder produces a 2-step plan (resource
\* patch, then restart) with requires_approval true and can_auto_execute
\* false on each step, and the execution pass over that plan halts at step 1
\* with one approval request sent and step 2 not attempted. The plan is
\* required of the analysis the code computes itself (fallback_analysis).
C20_OomScenario ==
    /\ (/\ analysis.analysis_type = "new_analysis"
        /\ analysis.oom_killed
        /\ analysis.autonomy_mode = "approve"
        /\ analysis.analysis_result = fallback_analysis(TRUE))
          => OomScenarioPlan(plan)
    /\ (agent_pc = "done" /\ OomScenarioPlan(plan))
          => /\ Len(execution_result.steps_executed) = 1
             /\ execution_result.steps_executed[1].step_number = 1
             /\ execution_result.steps_executed[1].status
                   = "queued_for_approval"
             /\ executor_calls = <<>>
             /\ Len(notifications) <= 1

\* C21: during execute_plan a step is passed to the Action Executor only if
\* the can_auto_execute value stored on it at plan-build time is true, and a
\* step is executed or queued by that stored value alone, whatever
\* autonomy_mode the execute request carries.
C21_StoredAnnotationDecides ==
    /\ \A k \in 1..Len(executor_calls) :
          plan.steps[executor_calls[k]].can_auto_execute
    /\ \A i \in 1..Len(execution_result.steps_executed) :
          LET step_result == execution_result.steps_executed[i]
          IN step_result.status # "queued_for_approval"
                <=> plan.steps[step_result.step_number].can_auto_execute

\* a request in dry_run mode passed a step annotated true to the executor,
\* and queued a step annotated false that its own mode would let through
C21_Witness ==
    /\ agent_pc = "done"
    /\ execution_result.autonomy_mode = "dry_run"
    /\ plan.autonomy_mode = "auto"
    /\ Len(plan.steps) = 2
    /\ plan.steps[1].can_auto_execute
    /\ ~plan.steps[2].can_auto_execute
    /\ executor_calls = <<1>>
    /\ Len(execution_result.steps_executed) = 2
    /\ execution_result.steps_executed[2].status = "queued_for_approval"

\* a pass over a list of checks that ended on a check that raised
RaisedInPass ==
    verify_pc = "done" /\ checks # NotAList /\ next_check <= Len(checks)

PresentOnBoth(runbook_data, runbook2) ==
    {f \in Features : runbook_data[f] # None /\ Carries(runbook2, f)}
\* those of them that are equal
MatchingExactly(runbook_data, runbook2) ==
    {f \in PresentOnBoth(runbook_data, runbook2) :
        runbook_data[f] = runbook2[f]}

\* C23: the score of every scanned item is the weight of the features that
\* match exactly over the weight of the features present on both sides (in
\* fortieths), and 0 when no feature is present on both sides; a feature
\* the search has no key for is in neither sum.
C23_ScoreOverFeaturesOnBothSides ==
    similar_pc = "done" =>
       \A i \in 1..Len(all_runbooks) :
          LET runbook2 == all_runbooks[i]
              present == WeightOf(PresentOnBoth(search_data, runbook2))
              matching == WeightOf(MatchingExactly(search_data, runbook2))
              score == calculate_similarity(
                          extract_runbook_features(search_data), runbook2)
          IN IF present = 0 THEN score = 0
             ELSE score * present = matching * 40

\* success_count / (success_count + failure_count) of the first item is at
\* least that of the second
RatioAtLeast(first, second) ==
    first.success_count * (second.success_count + second.failure_count)
       >= second.success_count * (first.success_count + first.failure_count)

\* C24: the returned list is in descending order of score, and of two
\* returned runbooks with equal score the one with the higher success ratio
\* comes first.
C24_RankedByScoreThenSuccessRatio ==
    similar_pc = "done" =>
       \A k, l \in 1..Len(similar_runbooks) :
          k < l =>
             /\ similar_runbooks[k].similarity_score
                   >= similar_runbooks[l].similarity_score
             /\ similar_runbooks[k].similarity_score
                   = similar_runbooks[l].similarity_score
                => RatioAtLeast(similar_runbooks[k].runbook,
                                similar_runbooks[l].runbook)

\* the version the stored object of a runbook carries
ObjectVersion(objects, runbook_id) == json_loads(objects[runbook_id]).version

\* C25: every update_runbook call whose S3 write succeeds leaves the stored
\* object one version above the version stored before the write, whatever
\* other calls are between their read and their write, and the index entry
\* then carries the version of the object; so n successful updates of a
\* runbook stored at version 1 leave it at version 1 + n.
C25_EachUpdateNewVersion ==
    [][\A k \in 1..Len(updating), index_ok \in BOOLEAN :
          update_runbook_put(k, TRUE, index_ok) =>
             LET runbook_id == updating[k].runbook_id IN
             /\ ObjectVersion(s3_runbooks', runbook_id)
                   = ObjectVersion(s3_runbooks, runbook_id) + 1
             /\ runbook_index'[runbook_id].version
                   = ObjectVersion(s3_runbooks', runbook_id)
      ]_vars

\* low < medium < high
RiskRank(risk_level) ==
    IF risk_level = "low" THEN 1 ELSE IF risk_level = "medium" THEN 2 ELSE 3

\* C26: the risk level of a plan built from an analysis is the maximum of
\* the risk levels of its steps: no step is above it and some step has it.
C26_PlanRiskIsMaxOfSteps ==
    (agent_pc = "planned" /\ plan.steps # <<>>) =>
       /\ \A i \in 1..Len(plan.steps) :
             RiskRank(plan.steps[i].risk_level) <= RiskRank(plan.risk_level)
       /\ \E i \in 1..Len(plan.steps) :
             plan.steps[i].risk_level = plan.risk_level

\* C27: every runbook held in the store has a non-empty step list (the
\* first half of the claim; the steps of a runbook carry no risk level of
\* their own in the store's code).
C27_StoredRunbooksHaveSteps ==
    \A runbook_id \in RunbookIds :
       s3_runbooks[runbook_id] # NoObject
          => json_loads(s3_runbooks[runbook_id]).steps # <<>>

\* C28: in an execution pass over a plan whose requires_approval is true no
\* step is passed to the Action Executor (the pass grants no approval: a
\* step that waits for one is queued and the loop goes on).
C28_ApprovalRequiredExecutesNothing ==
    (agent_pc \in {"loop", "done"} /\ execution_result # NoExecution
        /\ plan.requires_approval)
       => executor_calls = <<>>

\* a chaos command created a request in this step
CreatesRequest == Len(requests') = Len(requests) + 1

\* C29: a new approval request gets an id no earlier request had, and
\* creating it leaves every request already stored as it was: none is
\* overwritten and none goes back to pending.
C29_NewRequestNewId ==
    [][CreatesRequest =>
          /\ requests'[Len(requests')].approval_id \notin IssuedIds
          /\ \A approval_id \in ApprovalIds :
                approvals[approval_id] # NoRequest
                   => approvals'[approval_id] = approvals[approval_id]
      ]_vars

\* the step numbers passed to the Action Executor in this pass
Executed == {executor_calls[c] : c \in 1..Len(executor_calls)}

\* C30: in an execution pass an auto-executable step whose action is not one
\* of the known actions is not passed to the Action Executor; it is recorded
\* with status skipped, it is the last step the pass records, and the pass
\* has ended with a run status other than success.
C30_UnknownActionSkippedAndStops ==
    agent_pc \in {"loop", "done"} =>
       /\ \A number \in Executed : plan.steps[number].action \in known_actions
       /\ \A k \in 1..Len(execution_result.steps_executed) :
             LET step_result == execution_result.steps_executed[k]
                 step == plan.steps[step_result.step_number]
             IN (step.can_auto_execute /\ step.action \notin known_actions)
                   => /\ step_result.status = "skipped"
                      /\ step_result.step_number \notin Executed
                      /\ k = Len(execution_result.steps_executed)
                      /\ agent_pc = "done"
                      /\ execution_result.status = "partial_failure"

\* a pass of two auto-executable steps, the first of an unknown action: it
\* is skipped, the pass is over and the second step was never tried
C30_Witness ==
    /\ agent_pc = "done"
    /\ Len(plan.steps) = 2
    /\ plan.steps[1].can_auto_execute
    /\ plan.steps[1].action \notin known_actions
    /\ plan.steps[2].can_auto_execute
    /\ plan.steps[2].action \in known_actions
    /\ Len(execution_result.steps_executed) = 1
    /\ execution_result.steps_executed[1].status = "skipped"
    /\ execution_result.status = "partial_failure"
    /\ executor_calls = <<>>
====
